---- MODULE Spec2Model ----
(***************************************************************************)
(* Model of calculate_dimensions (src/measure_dimensions.py): one run of   *)
(* the measurement pipeline on one image.                                  *)
(*                                                                         *)
(* A contour is abstracted to what the function reads of it: the size      *)
(* (w, h) of its cv2.minAreaRect box and its cv2.contourArea.  A contour   *)
(* is referred to by its position in the sorted list `contours`            *)
(* (0 stands for None).  Lengths and areas are non-negative integers,      *)
(* quotients are exact fractions <<numerator, denominator>>; <<>> stands   *)
(* for None.  The one place where IEEE double rounding decides a branch,   *)
(* the product area * 1.1 of line 77, is modelled with its rounding.       *)
(***************************************************************************)
EXTENDS Integers, Sequences, FiniteSets, TLC

(* ------------------------------ bounds -------------------------------- *)

\* largest number of contours cv2.findContours returns for an image
MaxContours == 3

\* largest factor by which an input is magnified in the scaling property
MaxK == 3

(* ------------------------------ inputs -------------------------------- *)

Contour(w, h, area) == [w |-> w, h |-> h, area |-> area]

\* contours an image can hold; the enclosed area never exceeds the box area
Pool ==
    { Contour(300, 150, 20),   \* large object, box 300 x 150
      Contour(150, 300, 20),   \* the same object turned by 90 degrees
      Contour(100, 160, 10),   \* card, ratio 1.6
      Contour(10, 15, 11),     \* ratio exactly 1.5, area 1.1 x the card's
      Contour(17, 10, 10),     \* ratio exactly 1.7
      Contour(0, 7, 0),        \* collinear points: one side of length zero
      Contour(0, 0, 0),        \* a single point: both sides zero
      Contour(16, 10, 0) }     \* card-shaped open curve, no enclosed area

\* -w / --ref_width: width of the reference's shorter side, positive
Widths == {2, 5}

\* dimensions_log.txt before the run
OldLine == [image |-> "earlier.png", text |-> <<<<1, 1>>, <<2, 1>>>>]
InitialLogs == { <<>>, <<OldLine>> }

SeqsUpTo(S, n) == UNION { [1..m -> S] : m \in 0..n }

(* ----------------------------- fractions ------------------------------ *)

\* a / b for a non-negative integer a and a fraction b = <<n, d>>
DivByFrac(a, b) == <<a * b[2], b[1]>>

FracEq(p, q) == p[1] * q[2] = q[1] * p[2]
FracLe(p, q) == p[1] * q[2] <= q[1] * p[2]

Min2(a, b) == IF a <= b THEN a ELSE b
Max2(a, b) == IF a >= b THEN a ELSE b

(* --------------------------- pure helpers ----------------------------- *)

\* line 35: len(contours) < 2
TooFewContours_OffByOne(cs) == Len(cs) < 1
TooFewContours(cs) == Len(cs) < 2

\* line 40: sorted(contours, key=cv2.contourArea, reverse=True); the sort is
\* stable, contours of equal area keep their order
RECURSIVE InsertByArea(_, _)
InsertByArea(c, s) ==
    IF s = <<>> THEN <<c>>
    ELSE IF Head(s).area > c.area
         THEN <<Head(s)>> \o InsertByArea(c, Tail(s))
         ELSE <<c>> \o s

RECURSIVE SortByArea(_)
SortByArea(cs) ==
    IF cs = <<>> THEN <<>>
    ELSE InsertByArea(Head(cs), SortByArea(Tail(cs)))

\* lines 54-58: pixel_height / pixel_width raises ZeroDivisionError
RaisesZeroDivision(c) == Min2(c.w, c.h) = 0

\* line 60: 1.5 < aspect_ratio < 1.7 with aspect_ratio = max / min, min > 0
AspectMatches_Inclusive(c) ==
    /\ 15 * Min2(c.w, c.h) <= 10 * Max2(c.w, c.h)
    /\ 10 * Max2(c.w, c.h) <= 17 * Min2(c.w, c.h)
AspectMatches(c) ==
    /\ 15 * Min2(c.w, c.h) < 10 * Max2(c.w, c.h)
    /\ 10 * Max2(c.w, c.h) < 17 * Min2(c.w, c.h)

\* line 63: pixels_per_cm = pixel_width / ref_object_width_cm
PixelsPerCm_LongSide(c, width) == <<Max2(c.w, c.h), width>>
PixelsPerCm(c, width) == <<Min2(c.w, c.h), width>>

\* lines 57-58: `continue` after a ZeroDivisionError
AfterZeroDivision_Break(idx, n) == "check_ref"
AfterZeroDivision(idx, n) == IF idx < n THEN "scan" ELSE "check_ref"

\* line 65: `break` after the reference is found
AfterMatch_NoBreak(idx, n) == IF idx < n THEN "scan" ELSE "check_ref"
AfterMatch(idx, n) == "check_ref"

\* largest power of two not above n (n >= 1): the binade of the double n
RECURSIVE Pow2Floor(_)
Pow2Floor(n) == IF n < 2 THEN 1 ELSE 2 * Pow2Floor(n \div 2)

\* line 77: a0 < aref * 1.1 in IEEE double arithmetic.  The literal 1.1 is
\* the double 1.1 + 0.4 * 2^-52, so the product is rounded from
\* 1.1 * aref * (1 + 0.36.. * 2^-52).  Away from 10 * a0 = 11 * aref the
\* comparison is the exact one; at 10 * a0 = 11 * aref the product is rounded
\* up past a0 when a0 lies above 1.375 times its power of two.
LessThanTimes1_1(a0, aref) ==
    \/ 10 * a0 < 11 * aref
    \/ /\ 10 * a0 = 11 * aref
       /\ a0 > 0
       /\ 8 * a0 > 11 * Pow2Floor(a0)

\* lines 74-78: contours[0], or contours[1] when contours[0] is less than
\* 1.1 times the reference in area
TargetIndex(cs, ref) ==
    IF LessThanTimes1_1(cs[1].area, cs[ref].area) THEN 2 ELSE 1

\* line 88: sorted([target_width_cm, target_height_cm])
SortedPair_Unsorted(a, b) == <<a, b>>
SortedPair(a, b) == IF FracLe(a, b) THEN <<a, b>> ELSE <<b, a>>

\* lines 82-88: both box sides divided by the scale, ascending
Measure(c, ppc) == SortedPair(DivByFrac(c.w, ppc), DivByFrac(c.h, ppc))

\* line 109: open("dimensions_log.txt", "a") and write one line
AppendLine_Truncate(log, line) == <<line>>
AppendLine(log, line) == Append(log, line)

(* ------------------------------- state -------------------------------- *)

VARIABLES
    image_readable,       \* cv2.imread(image_path) is not None
    image_contours,       \* what cv2.findContours yields for the image
    ref_object_width_cm,  \* the argument
    pc,                   \* position in calculate_dimensions
    contours,             \* local `contours`
    i,                    \* position of the scan loop of line 48
    ref_contour,          \* index of the reference in contours, 0 = None
    pixels_per_cm,        \* <<>> = None
    target_contour,       \* index of the target in contours, 0 = unset
    dims,                 \* <<dim1, dim2>>, <<>> = unset
    error,                \* the error message printed, "none" if none
    output_image,         \* output_measured.png was written by this run
    log_file              \* lines of dimensions_log.txt

vars == <<image_readable, image_contours, ref_object_width_cm, pc, contours,
          i, ref_contour, pixels_per_cm, target_contour, dims, error,
          output_image, log_file>>

inputs == <<image_readable, image_contours, ref_object_width_cm>>

Init ==
    /\ image_readable \in BOOLEAN
    /\ image_contours \in SeqsUpTo(Pool, MaxContours)
    /\ ref_object_width_cm \in Widths
    /\ pc = "read"
    /\ contours = <<>>
    /\ i = 0
    /\ ref_contour = 0
    /\ pixels_per_cm = <<>>
    /\ target_contour = 0
    /\ dims = <<>>
    /\ error = "none"
    /\ output_image = FALSE
    /\ log_file \in InitialLogs

(* ------------------------------ actions ------------------------------- *)

\* lines 12-15
ReadImage ==
    /\ pc = "read"
    /\ IF image_readable
       THEN /\ pc' = "find"
            /\ error' = error
       ELSE /\ pc' = "returned"
            /\ error' = "InputError"
    /\ UNCHANGED <<inputs, contours, i, ref_contour, pixels_per_cm,
                   target_contour, dims, output_image, log_file>>

\* lines 19-37
FindContours ==
    /\ pc = "find"
    /\ contours' = image_contours
    /\ IF TooFewContours(image_contours)
       THEN /\ pc' = "returned"
            /\ error' = "InsufficientContoursError"
       ELSE /\ pc' = "sort"
            /\ error' = error
    /\ UNCHANGED <<inputs, i, ref_contour, pixels_per_cm, target_contour,
                   dims, output_image, log_file>>

\* lines 40-44
SortContours ==
    /\ pc = "sort"
    /\ contours' = SortByArea(contours)
    /\ ref_contour' = 0
    /\ pixels_per_cm' = <<>>
    /\ i' = 1
    /\ pc' = IF Len(contours) >= 1 THEN "scan" ELSE "check_ref"
    /\ UNCHANGED <<inputs, target_contour, dims, error, output_image,
                   log_file>>

\* lines 48-65: one iteration of the loop over contours
ScanContour ==
    /\ pc = "scan"
    /\ LET cnt == contours[i]
           n == Len(contours)
       IN  \/ /\ RaisesZeroDivision(cnt)
              /\ pc' = AfterZeroDivision(i, n)
              /\ UNCHANGED <<ref_contour, pixels_per_cm>>
           \/ /\ ~RaisesZeroDivision(cnt)
              /\ AspectMatches(cnt)
              /\ ref_contour' = i
              /\ pixels_per_cm' = PixelsPerCm(cnt, ref_object_width_cm)
              /\ pc' = AfterMatch(i, n)
           \/ /\ ~RaisesZeroDivision(cnt)
              /\ ~AspectMatches(cnt)
              /\ pc' = IF i < n THEN "scan" ELSE "check_ref"
              /\ UNCHANGED <<ref_contour, pixels_per_cm>>
    /\ i' = i + 1
    /\ UNCHANGED <<inputs, contours, target_contour, dims, error,
                   output_image, log_file>>

\* lines 67-69
CheckReference ==
    /\ pc = "check_ref"
    /\ IF pixels_per_cm = <<>>
       THEN /\ pc' = "returned"
            /\ error' = "ReferenceNotFoundError"
       ELSE /\ pc' = "select"
            /\ error' = error
    /\ UNCHANGED <<inputs, contours, i, ref_contour, pixels_per_cm,
                   target_contour, dims, output_image, log_file>>

\* lines 74-78
SelectTarget ==
    /\ pc = "select"
    /\ target_contour' = TargetIndex(contours, ref_contour)
    /\ pc' = "measure"
    /\ UNCHANGED <<inputs, contours, i, ref_contour, pixels_per_cm, dims,
                   error, output_image, log_file>>

\* lines 82-90
MeasureTarget ==
    /\ pc = "measure"
    /\ dims' = Measure(contours[target_contour], pixels_per_cm)
    /\ pc' = "draw"
    /\ UNCHANGED <<inputs, contours, i, ref_contour, pixels_per_cm,
                   target_contour, error, output_image, log_file>>

\* lines 95-105
DrawAndSave ==
    /\ pc = "draw"
    /\ output_image' = TRUE
    /\ pc' = "log"
    /\ UNCHANGED <<inputs, contours, i, ref_contour, pixels_per_cm,
                   target_contour, dims, error, log_file>>

\* lines 109-110
LogResult ==
    /\ pc = "log"
    /\ log_file' = AppendLine(log_file, [image |-> "image.png", text |-> dims])
    /\ pc' = "display"
    /\ UNCHANGED <<inputs, contours, i, ref_contour, pixels_per_cm,
                   target_contour, dims, error, output_image>>

\* lines 115-129
Display ==
    /\ pc = "display"
    /\ pc' = "done"
    /\ UNCHANGED <<inputs, contours, i, ref_contour, pixels_per_cm,
                   target_contour, dims, error, output_image, log_file>>

Next ==
    \/ ReadImage
    \/ FindContours
    \/ SortContours
    \/ ScanContour
    \/ CheckReference
    \/ SelectTarget
    \/ MeasureTarget
    \/ DrawAndSave
    \/ LogResult
    \/ Display

Spec == Init /\ [][Next]_vars

(* ------------------------ vocabulary of the claims -------------------- *)

ShortSide(c) == IF c.w <= c.h THEN c.w ELSE c.h
LongSide(c) == IF c.w <= c.h THEN c.h ELSE c.w

\* long side / short side strictly between 1.5 and 1.7
IsCard(c) ==
    /\ ShortSide(c) > 0
    /\ 15 * ShortSide(c) < 10 * LongSide(c)
    /\ 10 * LongSide(c) < 17 * ShortSide(c)

HasZeroSide(c) == c.w = 0 \/ c.h = 0

AreaDescending(cs) ==
    \A j \in 1..Len(cs) : \A k \in j..Len(cs) : cs[j].area >= cs[k].area

\* position of the first card in cs, 0 when there is none
FirstCard(cs) ==
    IF \E j \in 1..Len(cs) : IsCard(cs[j])
    THEN CHOOSE j \in 1..Len(cs) :
            /\ IsCard(cs[j])
            /\ \A k \in 1..(j - 1) : ~IsCard(cs[k])
    ELSE 0

ScanFinished == pc \notin {"read", "find", "sort", "scan"}

\* order of the positions of the function body
Stage(p) ==
    CASE p = "read" -> 1
      [] p = "find" -> 2
      [] p = "sort" -> 3
      [] p = "scan" -> 4
      [] p = "check_ref" -> 5
      [] p = "select" -> 6
      [] p = "measure" -> 7
      [] p = "draw" -> 8
      [] p = "log" -> 9
      [] p = "display" -> 10
      [] p = "done" -> 11
      [] p = "returned" -> 12

\* the input with every length multiplied by k and every area by k * k
Scaled(cs, k) ==
    [j \in 1..Len(cs) |->
        Contour(k * cs[j].w, k * cs[j].h, k * k * cs[j].area)]

\* the result of the scan loop of lines 48-65 on the sorted list cs
ScanResult(cs) ==
    IF \E j \in 1..Len(cs) : ~RaisesZeroDivision(cs[j]) /\ AspectMatches(cs[j])
    THEN CHOOSE j \in 1..Len(cs) :
            /\ ~RaisesZeroDivision(cs[j]) /\ AspectMatches(cs[j])
            /\ \A m \in 1..(j - 1) :
                  RaisesZeroDivision(cs[m]) \/ ~AspectMatches(cs[m])
    ELSE 0

(* ------------------------------- claims ------------------------------- *)

\* C1: whenever a target has been selected, it is a different boundary from
\* the reference (a run with no distinct candidate fails instead of measuring
\* the reference as the target).
C1_TargetDistinctFromReference ==
    target_contour # 0 => target_contour # ref_contour

\* C2: for at least two boundaries in area-descending order, the reference is
\* the first boundary whose ratio long/short lies strictly between 1.5 and
\* 1.7 (none when there is no such boundary), and the scale is that box's
\* short side divided by the known reference width.
C2_ReferenceIsFirstCard ==
    (ScanFinished /\ Len(contours) >= 2) =>
        /\ AreaDescending(contours)
        /\ ref_contour = FirstCard(contours)
        /\ ref_contour = 0 => pixels_per_cm = <<>>
        /\ ref_contour # 0 =>
              /\ pixels_per_cm # <<>>
              /\ pixels_per_cm[1] * ref_object_width_cm
                   = ShortSide(contours[ref_contour]) * pixels_per_cm[2]

\* C2 witness: the card is third in the order, behind a boundary of ratio
\* exactly 1.5 and one of ratio exactly 1.7, and became the reference.
C2_Witness ==
    /\ pc = "select"
    /\ Len(contours) = 3
    /\ 10 * LongSide(contours[1]) = 15 * ShortSide(contours[1])
    /\ ShortSide(contours[1]) > 0
    /\ 10 * LongSide(contours[2]) = 17 * ShortSide(contours[2])
    /\ ShortSide(contours[2]) > 0
    /\ ref_contour = 3
    /\ pixels_per_cm = <<100, 5>>

\* C3: the target is index 0 of the area-descending order, unless the area of
\* that boundary is less than 1.1 times the reference's area, and then it is
\* index 1; in particular the target is the second largest when the largest
\* boundary is the reference.
C3_TargetPolicy ==
    target_contour # 0 =>
        /\ target_contour =
              IF 10 * contours[1].area < 11 * contours[ref_contour].area
              THEN 2 ELSE 1
        /\ ref_contour = 1 => target_contour = 2

\* C4: the dimensions are (min(w,h)/s, max(w,h)/s) for the target box (w, h)
\* and the scale s, in ascending order, and the same for the box (h, w).
C4_DimensionsAscending ==
    dims # <<>> =>
        LET t == contours[target_contour]
            s == pixels_per_cm
            turned == Contour(t.h, t.w, t.area)
        IN  /\ dims[1][1] * s[1] = ShortSide(t) * s[2] * dims[1][2]
            /\ dims[2][1] * s[1] = LongSide(t) * s[2] * dims[2][2]
            /\ dims[1][1] * dims[2][2] <= dims[2][1] * dims[1][2]
            /\ FracEq(Measure(turned, s)[1], dims[1])
            /\ FracEq(Measure(turned, s)[2], dims[2])

\* C4 witness: reference short side 100, width 5.0, target box 300 x 150,
\* result (7.5, 15.0).
C4_Witness ==
    /\ pc = "done"
    /\ ShortSide(contours[ref_contour]) = 100
    /\ ref_object_width_cm = 5
    /\ contours[target_contour].w = 300
    /\ contours[target_contour].h = 150
    /\ FracEq(dims[1], <<15, 2>>)
    /\ FracEq(dims[2], <<15, 1>>)

\* C5: a run on a readable image with fewer than two boundaries ends with
\* the insufficient-contours error before any reference search or target
\* selection, and without a measurement.
C5_TooFewContoursFails ==
    (image_readable /\ Len(image_contours) < 2 /\ pc \notin {"read", "find"}) =>
        /\ pc = "returned"
        /\ error = "InsufficientContoursError"
        /\ i = 0
        /\ ref_contour = 0
        /\ pixels_per_cm = <<>>
        /\ target_contour = 0
        /\ dims = <<>>

\* C5 witness: a run on an image with exactly one boundary has failed.
C5_Witness ==
    /\ pc = "returned"
    /\ Len(image_contours) = 1
    /\ error = "InsufficientContoursError"

\* C6: with at least two boundaries and none of ratio strictly between 1.5
\* and 1.7, the run ends with the reference-not-found error, selects no
\* target and computes no dimensions; a run that has returned takes no
\* further step.
C6_NoReferenceFails ==
    /\ []( ( /\ image_readable
             /\ Len(image_contours) >= 2
             /\ \A j \in 1..Len(image_contours) : ~IsCard(image_contours[j])
             /\ Stage(pc) > Stage("check_ref") )
           => ( /\ pc = "returned"
                /\ error = "ReferenceNotFoundError"
                /\ ref_contour = 0
                /\ target_contour = 0
                /\ dims = <<>> ) )
    /\ [][pc # "returned"]_vars

\* C6 witness: two boundaries or more, none a card, and the run has failed.
C6_Witness ==
    /\ pc = "returned"
    /\ error = "ReferenceNotFoundError"
    /\ Len(contours) >= 2
    /\ \E j \in 1..Len(contours) :
          10 * LongSide(contours[j]) = 15 * ShortSide(contours[j])
          /\ ShortSide(contours[j]) > 0

\* C7: a step that ends the run in failure leaves no measurement, no output
\* image and the log as it was, and no step follows it; the log changes only
\* in the logging step of a run that reached it, by one line appended to the
\* lines it held; the positions of the run are passed in order and only the
\* scan loop repeats, so a run that is done has logged exactly once.
C7_AllOrNothing ==
    [][ /\ pc # "returned"
        /\ Stage(pc') > Stage(pc) \/ (pc = "scan" /\ pc' = "scan")
        /\ pc' = "returned" =>
              /\ error' \in {"InputError", "InsufficientContoursError",
                             "ReferenceNotFoundError"}
              /\ dims' = <<>>
              /\ target_contour' = 0
              /\ output_image' = FALSE
              /\ log_file' = log_file
        /\ pc' = "done" => pc = "display"
        /\ pc' = "display" => pc = "log"
        /\ pc # "log" => log_file' = log_file
        /\ pc = "log" =>
              /\ Len(log_file') = Len(log_file) + 1
              /\ SubSeq(log_file', 1, Len(log_file)) = log_file
              /\ log_file'[Len(log_file')].text = dims
              /\ dims # <<>>
              /\ output_image
      ]_vars

\* C7 witness: a successful run on a log that held one line.
C7_Witness ==
    /\ pc = "done"
    /\ output_image
    /\ Len(log_file) = 2
    /\ log_file[1] = OldLine
    /\ log_file[2].text = dims

\* C8: the reference never has a side of length zero, and once the scan is
\* over a card that follows boundaries with a zero-length side has been found.
C8_ZeroSideSkipped ==
    /\ ref_contour # 0 => ~HasZeroSide(contours[ref_contour])
    /\ ScanFinished =>
          \A j \in 1..Len(contours) : \A k \in (j + 1)..Len(contours) :
              (HasZeroSide(contours[j]) /\ IsCard(contours[k])) =>
                  (ref_contour # 0 /\ IsCard(contours[ref_contour]))

\* C8 witness: a boundary with one zero side and one with both sides zero
\* come first, the card behind them is the reference.
C8_Witness ==
    /\ pc = "select"
    /\ Len(contours) = 3
    /\ HasZeroSide(contours[1])
    /\ contours[2].w = 0 /\ contours[2].h = 0
    /\ ref_contour = 3

\* C9: the run on the input magnified by k (sides by k, areas by k * k)
\* chooses the same reference and target and computes the same dimensions.
C9_ScaleInvariant ==
    pc = "done" =>
        \A k \in 1..MaxK :
            LET scs == SortByArea(Scaled(image_contours, k))
                r == ScanResult(scs)
                t == TargetIndex(scs, r)
                d == Measure(scs[t], PixelsPerCm(scs[r], ref_object_width_cm))
            IN  /\ r = ref_contour
                /\ t = target_contour
                /\ FracEq(d[1], dims[1])
                /\ FracEq(d[2], dims[2])

\* C10: the scale, once computed, is never computed again nor the reference
\* replaced; it is the short side of the reference over the width and
\* strictly positive, so no dimension has a zero divisor or is negative.
C10_ScaleOncePositive ==
    /\ []( /\ pixels_per_cm # <<>> =>
                /\ ref_contour # 0
                /\ pixels_per_cm[1] > 0
                /\ pixels_per_cm[2] > 0
                /\ pixels_per_cm[1] = ShortSide(contours[ref_contour])
           /\ dims # <<>> =>
                /\ pixels_per_cm # <<>>
                /\ \A j \in 1..2 : dims[j][2] > 0 /\ dims[j][1] >= 0 )
    /\ [][pixels_per_cm # <<>> =>
            (pixels_per_cm' = pixels_per_cm /\ ref_contour' = ref_contour)]_vars

\* C10 witness: a finished run whose list holds a second card behind the
\* reference, with another short side.
C10_Witness ==
    /\ pc = "done"
    /\ \E j \in (ref_contour + 1)..Len(contours) :
          /\ IsCard(contours[j])
          /\ ShortSide(contours[j]) # ShortSide(contours[ref_contour])
    /\ pixels_per_cm[1] * pixels_per_cm[2] > 0

====
